---------------------------- MODULE Spec2Model ----------------------------
(***************************************************************************)
(* A model of src/src/App.js: the "My Hacker Stories" search page.         *)
(*                                                                         *)
(* The page keeps a search term (mirrored into localStorage), a committed  *)
(* query URL, a stories state driven by storiesReducer, and the set of     *)
(* GET requests that have been issued and not yet settled.  Every action   *)
(* is one event-loop task: an event handler or a promise callback together *)
(* with the render React makes because of it.  The callbacks given to      *)
(* React.useEffect (line 19, line 87) are passive effects: a render        *)
(* schedules them and React runs them after the commit, in a task of their *)
(* own (React 16 and 17, and every render that no discrete event caused)   *)
(* or at the end of the task that rendered (React 18 roots, for a discrete *)
(* event).  The React version is not part of the sources, so the effects   *)
(* of a render are a step of their own, RunEffects, which may follow the   *)
(* render at once or after a page reload or a promise callback came first. *)
(***************************************************************************)
EXTENDS Integers, Sequences, FiniteSets, TLC

(***************************************************************************)
(* Bounds of the model.                                                    *)
(***************************************************************************)
\* longest collection the reducer is applied to
MaxHits == 2
\* GET requests issued per page load
MaxFetches == 3

(***************************************************************************)
(* Values.                                                                 *)
(***************************************************************************)
API_ENDPOINT == "https://hn.algolia.com/api/v1/search?query="

SEARCH_KEY == "search"

DEFAULT_TERM == "React"

\* what the user can type into the input (event.target.value)
Typed == {"", "a", "b"}

\* every value the search term can take
Terms == Typed \cup {DEFAULT_TERM}

\* the story records a response carries (the API gives each its own objectID)
ApiStory ==
  { [objectID |-> 1, title |-> "A"],
    [objectID |-> 2, title |-> "B"] }

\* the story records the reducer is applied to: two share an objectID, and one
\* is in no response
Story == ApiStory \cup { [objectID |-> 1, title |-> "C"], [objectID |-> 3, title |-> "D"] }

RECURSIVE SeqsUpTo(_, _)
SeqsUpTo(S, n) ==
  IF n = 0 THEN {<<>>}
  ELSE LET shorter == SeqsUpTo(S, n - 1)
       IN  shorter \cup {Append(q, e) : q \in {p \in shorter : Len(p) = n - 1}, e \in S}

\* the collections the reducer is applied to, and the payloads it is given
Collections == SeqsUpTo(Story, MaxHits)

\* result.data.hits of the responses the API gives: no result, one, two
Hits ==
  { <<>>,
    <<[objectID |-> 1, title |-> "A"]>>,
    <<[objectID |-> 1, title |-> "A"], [objectID |-> 2, title |-> "B"]>> }

\* result.data.hits of a response whose body has no "hits" field (a JSON
\* object without it, or a body that is not JSON, which axios hands over as a
\* string): undefined, a value that is no array of stories
Undefined == <<[undefined |-> TRUE]>>

\* result.data.hits of every response that resolves with a body
ResponseHits == Hits \cup {Undefined}

\* a response that resolves with result.data null or absent (a 2xx response
\* whose body is the JSON null): result.data has no property to read
NoData == <<[noData |-> TRUE]>>

\* what a GET resolves with: result.data.hits, or no result.data at all
Responses == ResponseHits \cup {NoData}

\* Evaluating result.data.hits (line 80) throws a TypeError when result.data
\* is null or undefined: the .then callback dispatches nothing and the promise
\* it returns rejects, so the .catch callback of line 83 runs.
ThenThrows(response) == response = NoData

\* why a GET rejects: no response at all, or a status outside 2xx
Rejections == {"network", "status"}

(***************************************************************************)
(* localStorage: a map from the keys that are present to strings.          *)
(* A JavaScript value that is a string or null is a record.                *)
(***************************************************************************)
Null == [isNull |-> TRUE, str |-> ""]

Str(s) == [isNull |-> FALSE, str |-> s]

getItem(store, key) == IF key \in DOMAIN store THEN Str(store[key]) ELSE Null

\* a variant of setItem that never overwrites a key that is present
setItemOnce(store, key, value) ==
  [k \in (DOMAIN store) \cup {key} |-> IF k \in DOMAIN store THEN store[k] ELSE value]

setItem(store, key, value) ==
  [k \in (DOMAIN store) \cup {key} |-> IF k = key THEN value ELSE store[k]]

\* JavaScript truthiness of a string-or-null: null and "" are falsy
Truthy(v) == ~v.isNull /\ v.str # ""

\* v || d
OrElse(v, d) == IF Truthy(v) THEN v.str ELSE d

EmptyStore == [k \in {} |-> ""]

StoreWith(value) == [k \in {SEARCH_KEY} |-> value]

\* what localStorage can hold when the page is opened
Stores == {EmptyStore} \cup {StoreWith(t) : t \in Terms}

(***************************************************************************)
(* useSemiPersistentState                                                  *)
(***************************************************************************)
\* the initial value of the state (line 12-14)
InitialValue(store, key, initialValue) == OrElse(getItem(store, key), initialValue)

\* a variant of PersistEffect that writes nothing
PersistEffectNever(store, key, value) == store

\* the effect of line 19, run after a render in which value or key changed
PersistEffect(store, key, value) == setItem(store, key, value)

(***************************************************************************)
(* storiesReducer                                                          *)
(***************************************************************************)
\* a variant of FilterOut that drops only the first matching element
RECURSIVE FilterOutFirst(_, _)
FilterOutFirst(data, objectID) ==
  IF data = <<>> THEN <<>>
  ELSE IF objectID # Head(data).objectID
         THEN <<Head(data)>> \o FilterOutFirst(Tail(data), objectID)
         ELSE Tail(data)

\* Array.prototype.filter with the predicate of line 53
RECURSIVE FilterOut(_, _)
FilterOut(data, objectID) ==
  IF data = <<>> THEN <<>>
  ELSE LET rest == FilterOut(Tail(data), objectID)
       IN  IF objectID # Head(data).objectID THEN <<Head(data)>> \o rest ELSE rest

\* a variant of OnFetchInit that empties the collection while loading
OnFetchInitClears(state) ==
  [state EXCEPT !.isLoading = TRUE, !.isError = FALSE, !.data = <<>>]

\* a variant of OnFetchInit that leaves the error flag as it is
OnFetchInitKeepsError(state) == [state EXCEPT !.isLoading = TRUE]

\* a variant of OnFetchInit that does not raise the loading flag
OnFetchInitNotLoading(state) == [state EXCEPT !.isError = FALSE]

\* case "STORIES_FETCH_INIT"
OnFetchInit(state) == [state EXCEPT !.isLoading = TRUE, !.isError = FALSE]

\* a variant of OnFetchSuccess that appends the payload to the collection
OnFetchSuccessMerges(state, payload) ==
  [state EXCEPT !.isLoading = FALSE, !.isError = FALSE, !.data = state.data \o payload]

\* a variant of OnFetchSuccess that leaves the loading flag as it is
OnFetchSuccessStillLoading(state, payload) ==
  [state EXCEPT !.isError = FALSE, !.data = payload]

\* case "STORIES_FETCH_SUCCESS"
OnFetchSuccess(state, payload) ==
  [state EXCEPT !.isLoading = FALSE, !.isError = FALSE, !.data = payload]

\* a variant of OnFetchFailure that empties the collection
OnFetchFailureClears(state) ==
  [state EXCEPT !.isLoading = FALSE, !.isError = TRUE, !.data = <<>>]

\* a variant of OnFetchFailure that leaves the loading flag as it is
OnFetchFailureStillLoading(state) == [state EXCEPT !.isError = TRUE]

\* case "STORIES_FETCH_FAILURE"
OnFetchFailure(state) == [state EXCEPT !.isLoading = FALSE, !.isError = TRUE]

\* case "REMOVE_STORY"
OnRemoveStory(state, item) ==
  [state EXCEPT !.data = FilterOut(state.data, item.objectID)]

\* the result of a reducer call that throws (the default case)
Thrown == [threw |-> TRUE]

\* a variant of storiesReducer whose default case returns the state
storiesReducerDefaultKeeps(state, action) ==
  CASE action.type = "STORIES_FETCH_INIT" -> OnFetchInit(state)
    [] action.type = "STORIES_FETCH_SUCCESS" -> OnFetchSuccess(state, action.payload)
    [] action.type = "STORIES_FETCH_FAILURE" -> OnFetchFailure(state)
    [] action.type = "REMOVE_STORY" -> OnRemoveStory(state, action.payload)
    [] OTHER -> state

storiesReducer(state, action) ==
  CASE action.type = "STORIES_FETCH_INIT" -> OnFetchInit(state)
    [] action.type = "STORIES_FETCH_SUCCESS" -> OnFetchSuccess(state, action.payload)
    [] action.type = "STORIES_FETCH_FAILURE" -> OnFetchFailure(state)
    [] action.type = "REMOVE_STORY" -> OnRemoveStory(state, action.payload)
    [] OTHER -> Thrown

\* the initial state given to useReducer (line 66-70)
InitialStories == [data |-> <<>>, isLoading |-> FALSE, isError |-> FALSE]

(***************************************************************************)
(* State.                                                                  *)
(***************************************************************************)
VARIABLES
  localStorage,  \* the browser's storage; it outlives the page
  searchTerm,    \* state of useSemiPersistentState (line 63)
  url,           \* the committed query URL (line 64)
  stories,       \* state of useReducer (line 66)
  pending,       \* GET requests issued and neither resolved nor rejected
  issued,        \* history: GET requests issued since the page was loaded
  inits,         \* history: STORIES_FETCH_INIT dispatches since the page was loaded
  base,          \* history: payload of the latest STORIES_FETCH_SUCCESS, <<>> before one
  removed,       \* history: objectIDs of the REMOVE_STORY dispatches since then
  mounted,       \* whether React still has the component tree mounted
  effects,       \* the passive effects the last render scheduled and React has not run
  before,        \* history: the stories state before the latest step
  last           \* history: the latest event and its inputs

vars ==
  <<localStorage, searchTerm, url, stories, pending, issued, inits,
    base, removed, mounted, effects, before, last>>

\* a record of the latest event; the fields an event does not use keep these
\* values (store: localStorage as a page load found it)
NoEvent ==
  [type |-> "NONE", payload |-> <<>>, objectID |-> 0, dataAtStart |-> <<>>,
   threw |-> FALSE, reqId |-> 0, outcome |-> "none", alsoInit |-> FALSE,
   store |-> EmptyStore]

Request(id, u, data) == [id |-> id, url |-> u, dataAtStart |-> data]

(***************************************************************************)
(* handleFetchStories (line 72-84) up to the point where the GET is out:   *)
(* it dispatches STORIES_FETCH_INIT and issues one GET for u.  Given the   *)
(* stories state, the outstanding requests and the two history counters,   *)
(* it yields their new values.  The new request remembers (history) the    *)
(* collection held before its fetch-start.                                 *)
(***************************************************************************)
\* a variant of handleFetchStories that sends the GET twice
handleFetchStoriesTwice(st, pend, nIssued, nInits, u) ==
  [stories |-> storiesReducer(st, [type |-> "STORIES_FETCH_INIT"]),
   pending |-> pend \cup {Request(nIssued + 1, u, st.data), Request(nIssued + 2, u, st.data)},
   issued  |-> nIssued + 1,
   inits   |-> nInits + 1]

\* a variant of handleFetchStories that cancels the GETs still outstanding
handleFetchStoriesCancels(st, pend, nIssued, nInits, u) ==
  [stories |-> storiesReducer(st, [type |-> "STORIES_FETCH_INIT"]),
   pending |-> {Request(nIssued + 1, u, st.data)},
   issued  |-> nIssued + 1,
   inits   |-> nInits + 1]

handleFetchStories(st, pend, nIssued, nInits, u) ==
  [stories |-> storiesReducer(st, [type |-> "STORIES_FETCH_INIT"]),
   pending |-> pend \cup {Request(nIssued + 1, u, st.data)},
   issued  |-> nIssued + 1,
   inits   |-> nInits + 1]

\* a variant of QueryUrl that leaves the term out
QueryUrlNoTerm(term) == API_ENDPOINT

\* the URL built on lines 64 and 95
QueryUrl(term) == API_ENDPOINT \o term

\* a variant of FetchEffectRuns for an effect without its dependency list
FetchEffectRunsAlways(oldUrl, newUrl) == TRUE

\* Whether the effect of line 87 runs after a render: its dependency,
\* handleFetchStories, is a new function exactly when url changed (line 84).
\* setUrl with an unchanged value does not even render.
FetchEffectRuns(oldUrl, newUrl) == newUrl # oldUrl

(***************************************************************************)
(* Passive effects.  App has two: the callback of line 19 ("persist"),     *)
(* which a render schedules when value (or key) changed, and the callback  *)
(* of line 87 ("fetch"), which a render schedules when handleFetchStories  *)
(* changed.  The first render schedules both.  React runs the scheduled    *)
(* effects together, in the order of the hooks, and always before the next *)
(* render, so an effect sees the searchTerm and url of the render that     *)
(* scheduled it.                                                           *)
(***************************************************************************)
AppEffects == {"persist", "fetch"}

\* whether the effect of line 19 runs after a render: its dependencies are
\* [value, key], and key never changes
PersistEffectRuns(oldValue, newValue) == newValue # oldValue

\* the effects scheduled by a render that follows one with oldTerm and oldUrl
ScheduledEffects(oldTerm, newTerm, oldUrl, newUrl) ==
  {e \in {"persist"} : PersistEffectRuns(oldTerm, newTerm)}
    \cup {e \in {"fetch"} : FetchEffectRuns(oldUrl, newUrl)}

\* Running the scheduled effects eff: line 19 writes term under the key, then
\* line 87 calls handleFetchStories, which dispatches STORIES_FETCH_INIT on
\* the stories state st and issues the GET for u.
FlushPassiveEffects(eff, store, term, u, st, pend, nIssued, nInits) ==
  LET fetch == handleFetchStories(st, pend, nIssued, nInits, u)
  IN  [localStorage |-> IF "persist" \in eff THEN PersistEffect(store, SEARCH_KEY, term)
                        ELSE store,
       stories |-> IF "fetch" \in eff THEN fetch.stories ELSE st,
       pending |-> IF "fetch" \in eff THEN fetch.pending ELSE pend,
       issued  |-> IF "fetch" \in eff THEN fetch.issued ELSE nIssued,
       inits   |-> IF "fetch" \in eff THEN fetch.inits ELSE nInits]

(***************************************************************************)
(* The page is opened (or reloaded) on a browser whose storage is `store`: *)
(* construction of App and the first render, which schedules the two       *)
(* effects.  Requests and scheduled effects of an earlier page die with    *)
(* it.                                                                     *)
(***************************************************************************)
Mount(store) ==
  LET term == InitialValue(store, SEARCH_KEY, DEFAULT_TERM)
  IN  /\ searchTerm' = term
      /\ url' = QueryUrl(term)
      /\ localStorage' = store
      /\ stories' = InitialStories
      /\ pending' = {}
      /\ issued' = 0
      /\ inits' = 0
      /\ base' = <<>>
      /\ removed' = <<>>
      /\ mounted' = TRUE
      /\ effects' = AppEffects
      /\ before' = InitialStories
      /\ last' = [NoEvent EXCEPT !.type = "LOAD", !.store = store]

Init ==
  \E store \in Stores :
    LET term == InitialValue(store, SEARCH_KEY, DEFAULT_TERM)
    IN  /\ searchTerm = term
        /\ url = QueryUrl(term)
        /\ localStorage = store
        /\ stories = InitialStories
        /\ pending = {}
        /\ issued = 0
        /\ inits = 0
        /\ base = <<>>
        /\ removed = <<>>
        /\ mounted = TRUE
        /\ effects = AppEffects
        /\ before = InitialStories
        /\ last = [NoEvent EXCEPT !.type = "LOAD", !.store = store]

PageLoad == Mount(localStorage)

(***************************************************************************)
(* React runs the scheduled effects in a task of their own: the callbacks  *)
(* of line 19 and line 87.  The render that STORIES_FETCH_INIT causes      *)
(* changes neither value nor url and schedules no effect.                  *)
(***************************************************************************)
RunEffects ==
  LET flush == FlushPassiveEffects(effects, localStorage, searchTerm, url,
                                   stories, pending, issued, inits)
  IN  /\ mounted
      /\ effects # {}
      /\ localStorage' = flush.localStorage
      /\ stories' = flush.stories
      /\ pending' = flush.pending
      /\ issued' = flush.issued
      /\ inits' = flush.inits
      /\ effects' = {}
      /\ before' = stories
      /\ last' = [NoEvent EXCEPT !.type = "EFFECTS", !.alsoInit = ("fetch" \in effects)]
      /\ UNCHANGED <<searchTerm, url, base, removed, mounted>>

(***************************************************************************)
(* handleSearchInput (line 91): setSearchTerm and the render.  With an     *)
(* unchanged value React renders nothing.  Input, submit and click are     *)
(* discrete events: React runs the effects still scheduled before it       *)
(* dispatches one (that is a RunEffects step), so their handlers start     *)
(* with none scheduled.                                                    *)
(***************************************************************************)
\* a variant of HandleSearchInput that derives the query URL on every edit
HandleSearchInputCommits(value) ==
  /\ mounted
  /\ effects = {}
  /\ searchTerm' = value
  /\ url' = QueryUrl(value)
  /\ effects' = ScheduledEffects(searchTerm, value, url, QueryUrl(value))
  /\ before' = stories
  /\ last' = [NoEvent EXCEPT !.type = "INPUT"]
  /\ UNCHANGED <<localStorage, stories, pending, issued, inits, base, removed, mounted>>

HandleSearchInput(value) ==
  /\ mounted
  /\ effects = {}
  /\ searchTerm' = value
  /\ effects' = ScheduledEffects(searchTerm, value, url, url)
  /\ before' = stories
  /\ last' = [NoEvent EXCEPT !.type = "INPUT"]
  /\ UNCHANGED <<localStorage, url, stories, pending, issued, inits, base, removed,
                 mounted>>

(***************************************************************************)
(* handleSearchSubmit (line 94-97): setUrl and the render.  The submit     *)
(* button is disabled while the term is empty (line 141), and a form whose *)
(* default button is disabled is not submitted.  setUrl with the value url *)
(* already has renders nothing; a new value gives a new handleFetchStories *)
(* (line 84), so the render schedules the effect of line 87.               *)
(***************************************************************************)
\* a variant of SubmitEnabled for a button that is never disabled
SubmitEnabledAlways(term) == TRUE

SubmitEnabled(term) == Truthy(Str(term))

HandleSearchSubmit ==
  LET next == QueryUrl(searchTerm)
  IN  /\ mounted
      /\ effects = {}
      /\ SubmitEnabled(searchTerm)
      /\ issued < MaxFetches
      /\ url' = next
      /\ effects' = ScheduledEffects(searchTerm, searchTerm, url, next)
      /\ before' = stories
      /\ last' = [NoEvent EXCEPT !.type = "SUBMIT"]
      /\ UNCHANGED <<localStorage, searchTerm, stories, pending, issued, inits, base,
                     removed, mounted>>

(***************************************************************************)
(* Rendering App with stories state st (line 107-125): List is rendered    *)
(* unless st.isLoading, and List calls list.map (line 152), which throws   *)
(* when the list is undefined.  No error boundary catches it, so React     *)
(* unmounts the whole tree: the page is blank, takes no further event, and *)
(* a dispatch of a later response changes nothing.                         *)
(***************************************************************************)
RenderThrows(st) == ~st.isLoading /\ st.data = Undefined

(***************************************************************************)
(* A promise callback of request r dispatches the action of the given type *)
(* (line 78-81 or line 83).  The dispatch makes React render; before it    *)
(* renders React runs the effects still scheduled, so the                  *)
(* STORIES_FETCH_INIT of a scheduled fetch effect is reduced after the     *)
(* callback's action and the two are rendered as one state.  On a page     *)
(* that is unmounted the dispatch changes nothing.                         *)
(***************************************************************************)
SettleWith(r, type, payload, outcome) ==
  LET result == storiesReducer(stories, [type |-> type, payload |-> payload])
      flush == FlushPassiveEffects(effects, localStorage, searchTerm, url,
                                   result, pending \ {r}, issued, inits)
  IN  /\ r \in pending
      /\ IF mounted
           THEN /\ localStorage' = flush.localStorage
                /\ stories' = flush.stories
                /\ pending' = flush.pending
                /\ issued' = flush.issued
                /\ inits' = flush.inits
                /\ effects' = {}
                /\ mounted' = ~RenderThrows(flush.stories)
                /\ before' = stories
                /\ base' = IF type = "STORIES_FETCH_SUCCESS" THEN payload ELSE base
                /\ removed' = IF type = "STORIES_FETCH_SUCCESS" THEN <<>> ELSE removed
                /\ last' = [NoEvent EXCEPT !.type = type,
                                           !.payload = payload,
                                           !.dataAtStart = r.dataAtStart,
                                           !.reqId = r.id,
                                           !.outcome = outcome,
                                           !.alsoInit = ("fetch" \in effects)]
           ELSE /\ pending' = pending \ {r}
                /\ UNCHANGED <<localStorage, stories, issued, inits, effects, mounted,
                               before, base, removed, last>>
      /\ UNCHANGED <<searchTerm, url>>

(***************************************************************************)
(* The GET of request r resolves: the .then callback of line 77-82.  With  *)
(* a result.data it dispatches STORIES_FETCH_SUCCESS with result.data.hits *)
(* (undefined when the body has no such field); without one line 80 throws *)
(* and the .catch callback of line 83 dispatches STORIES_FETCH_FAILURE.    *)
(***************************************************************************)
FetchResolve(r, response) ==
  IF ThenThrows(response)
    THEN SettleWith(r, "STORIES_FETCH_FAILURE", <<>>, "nodata")
    ELSE SettleWith(r, "STORIES_FETCH_SUCCESS", response,
                    IF response = Undefined THEN "malformed" ELSE "hits")

(***************************************************************************)
(* The GET of request r rejects, with a network error or a status outside  *)
(* 2xx: the .catch callback of line 83.                                    *)
(***************************************************************************)
FetchReject(r, why) == SettleWith(r, "STORIES_FETCH_FAILURE", <<>>, why)

(***************************************************************************)
(* handleRemoveStory (line 100-105), called by the Dismiss button of a     *)
(* rendered row: the list is rendered only while isLoading is false        *)
(* (line 119-123) and has one row per element of stories.data.             *)
(***************************************************************************)
\* a variant of Rows for a list that is rendered while loading too
RowsWhileLoading(st) == {st.data[i] : i \in 1..Len(st.data)}

Rows(st) == IF st.isLoading THEN {} ELSE {st.data[i] : i \in 1..Len(st.data)}

HandleRemoveStory(item) ==
  /\ mounted
  /\ effects = {}
  /\ item \in Rows(stories)
  /\ stories' = storiesReducer(stories, [type |-> "REMOVE_STORY", payload |-> item])
  /\ before' = stories
  /\ removed' = Append(removed, item.objectID)
  /\ last' = [NoEvent EXCEPT !.type = "REMOVE_STORY", !.objectID = item.objectID]
  /\ UNCHANGED <<localStorage, searchTerm, url, pending, issued, inits, base, mounted,
                 effects>>

Input == \E value \in Typed : HandleSearchInput(value)

Resolve == \E r \in pending, response \in Responses : FetchResolve(r, response)

Reject == \E r \in pending, why \in Rejections : FetchReject(r, why)

Remove == \E item \in ApiStory : HandleRemoveStory(item)

Next ==
  \/ PageLoad
  \/ RunEffects
  \/ Input
  \/ HandleSearchSubmit
  \/ Resolve
  \/ Reject
  \/ Remove

Spec == Init /\ [][Next]_vars

(***************************************************************************)
(* One page, from its load on a browser with nothing stored, with a        *)
(* transport that settles every GET: axios sets no timeout and nothing     *)
(* cancels a request (line 75-83), so a request stays outstanding until    *)
(* the transport resolves or rejects it, and the promise callbacks run as  *)
(* soon as it does.  Nothing is assumed about when a scheduled effect      *)
(* runs.                                                                   *)
(***************************************************************************)
InitLive == Init /\ localStorage = EmptyStore

Settle == Resolve \/ Reject

NextPage ==
  \/ RunEffects
  \/ Input
  \/ HandleSearchSubmit
  \/ Resolve
  \/ Reject
  \/ Remove

SpecLive ==
  /\ InitLive
  /\ [][NextPage]_vars
  /\ WF_vars(Settle)

(***************************************************************************)
(* The reducer on its own: from every stories state, every action.         *)
(* dispatchStories(action) makes React render, and the render calls        *)
(* storiesReducer(stories, action).  When the reducer throws no new state  *)
(* is produced and the render throws with it: no error boundary catches    *)
(* the error, so React unmounts the whole tree, as it does when List       *)
(* throws.  A dispatch on a page that is unmounted is ignored.  The page's *)
(* other variables stay as they are.                                       *)
(***************************************************************************)
ReducerStates == [data : Collections, isLoading : BOOLEAN, isError : BOOLEAN]

InitReducer ==
  /\ stories \in ReducerStates
  /\ before = stories
  /\ last = NoEvent
  /\ localStorage = EmptyStore
  /\ searchTerm = DEFAULT_TERM
  /\ url = QueryUrl(DEFAULT_TERM)
  /\ pending = {}
  /\ issued = 0
  /\ inits = 0
  /\ base = <<>>
  /\ removed = <<>>
  /\ mounted = TRUE
  /\ effects = {}

Dispatch(action, event) ==
  LET result == storiesReducer(stories, action)
  IN  IF mounted
        THEN /\ before' = stories
             /\ stories' = IF result = Thrown THEN stories ELSE result
             /\ mounted' = IF result = Thrown THEN FALSE ELSE ~RenderThrows(result)
             /\ last' = [event EXCEPT !.type = action.type, !.threw = (result = Thrown)]
             /\ UNCHANGED <<localStorage, searchTerm, url, pending, issued, inits,
                            base, removed, effects>>
        ELSE UNCHANGED vars

DispatchInit == Dispatch([type |-> "STORIES_FETCH_INIT"], NoEvent)

DispatchSuccess ==
  \E payload \in Collections :
    Dispatch([type |-> "STORIES_FETCH_SUCCESS", payload |-> payload],
             [NoEvent EXCEPT !.payload = payload])

DispatchFailure == Dispatch([type |-> "STORIES_FETCH_FAILURE"], NoEvent)

DispatchRemove ==
  \E item \in Story :
    Dispatch([type |-> "REMOVE_STORY", payload |-> item],
             [NoEvent EXCEPT !.objectID = item.objectID])

DispatchUnknown == Dispatch([type |-> "STORIES_FETCH_RETRY"], NoEvent)

NextReducer ==
  \/ DispatchInit
  \/ DispatchSuccess
  \/ DispatchFailure
  \/ DispatchRemove
  \/ DispatchUnknown

SpecReducer == InitReducer /\ [][NextReducer]_vars

(***************************************************************************)
(* The stories state machine from its initial state: every sequence of     *)
(* dispatches from the state useReducer starts with.                       *)
(***************************************************************************)
InitMachine == InitReducer /\ stories = InitialStories

SpecMachine == InitMachine /\ [][NextReducer]_vars

(***************************************************************************)
(* Properties.                                                             *)
(***************************************************************************)
Stored == getItem(localStorage, SEARCH_KEY)

Without(data, objectID) == SelectSeq(data, LAMBDA story : story.objectID # objectID)

RECURSIVE ApplyRemovals(_, _)
ApplyRemovals(data, ids) ==
  IF ids = <<>> THEN data ELSE ApplyRemovals(Without(data, Head(ids)), Tail(ids))

\* C1: in every reachable state the collection is the payload of the latest
\* successful fetch (the empty collection before one) with the removals
\* dispatched since then applied in order; base and removed change on no
\* other event, so no other event changes the collection.
C1_CollectionIsLatestPayloadMinusRemovals ==
  stories.data = ApplyRemovals(base, removed)

C1_Witness ==
  /\ Len(base) = 2
  /\ removed # <<>>
  /\ Len(stories.data) = 1
  /\ last.type = "STORIES_FETCH_FAILURE"

\* C2: from every stories state and for every payload, STORIES_FETCH_SUCCESS
\* yields the payload as the collection (same elements, same order, nothing
\* kept of the previous collection), with isLoading and isError false.
C2_SuccessReplacesCollection ==
  last.type = "STORIES_FETCH_SUCCESS" =>
    /\ stories.data = last.payload
    /\ stories.isLoading = FALSE
    /\ stories.isError = FALSE

C2_Witness ==
  /\ last.type = "STORIES_FETCH_SUCCESS"
  /\ Len(before.data) = 2
  /\ Len(last.payload) = 2
  /\ last.payload[1] = before.data[2]
  /\ last.payload[2] = before.data[1]
  /\ last.payload[1] # last.payload[2]
  /\ before.isError
  /\ stories.data = last.payload

C4_RemoveFiltersByObjectID ==
  last.type = "REMOVE_STORY" =>
    /\ stories.data = Without(before.data, last.objectID)
    /\ (\A i \in 1..Len(before.data) : before.data[i].objectID # last.objectID)
         => stories.data = before.data
    /\ stories.isLoading = before.isLoading
    /\ stories.isError = before.isError

C4_Witness ==
  /\ last.type = "REMOVE_STORY"
  /\ Len(before.data) = 2
  /\ before.data[1].objectID = last.objectID
  /\ before.data[2].objectID # last.objectID
  /\ stories.data = <<before.data[2]>>

C6_StoredIsSearchTerm ==
  /\ []("persist" \notin effects => Stored = Str(searchTerm))
  /\ [][ last'.type \in {"INPUT", "SUBMIT", "REMOVE_STORY"} =>
            Stored = Str(searchTerm) ]_vars

C6_Witness ==
  /\ last.type = "EFFECTS"
  /\ effects = {}
  /\ searchTerm = "a"
  /\ Stored = Str("a")
  /\ url = API_ENDPOINT \o "b"

\* C7: after a page load the search term is the value the load found persisted
\* under the key, whatever string it is, and the default only when the key
\* was absent.
C7_LoadRestoresPersistedValue ==
  last.type = "LOAD" =>
    searchTerm = IF SEARCH_KEY \in DOMAIN last.store THEN last.store[SEARCH_KEY]
                 ELSE DEFAULT_TERM

\* C8: right after a submission the committed URL is the endpoint followed by
\* the search term.
C8_SubmitCommitsEndpointAndTerm ==
  last.type = "SUBMIT" => url = API_ENDPOINT \o searchTerm

C8_Witness ==
  /\ last.type = "SUBMIT"
  /\ searchTerm = "a"
  /\ url = API_ENDPOINT \o "a"
  /\ issued = 1
  /\ effects = {"fetch"}

OneGetFor(requests, u) == \E r \in requests : requests = {r} /\ r.url = u

C10_OneGetPerUrlChange ==
  /\ issued = 0 /\ inits = 0 /\ pending = {} /\ "fetch" \in effects
  /\ url = API_ENDPOINT \o searchTerm
  /\ [][ IF last'.type = "LOAD"
           THEN /\ issued' = 0 /\ inits' = 0 /\ pending' = {} /\ "fetch" \in effects'
                /\ url' = API_ENDPOINT \o searchTerm'
           ELSE /\ url' # url =>
                     "fetch" \notin effects /\ "fetch" \in effects'
                /\ (url' = url /\ last'.type = "SUBMIT") => effects' = effects
                /\ IF "fetch" \in effects /\ "fetch" \notin effects'
                     THEN /\ issued' = issued + 1 /\ inits' = inits + 1
                          /\ stories'.isLoading
                          /\ url' = url
                          /\ OneGetFor(pending' \ pending, url)
                     ELSE /\ issued' = issued /\ inits' = inits
                          /\ pending' \subseteq pending ]_vars

C10_Witness ==
  /\ last.type = "EFFECTS"
  /\ issued = 3
  /\ inits = 3
  /\ url = API_ENDPOINT \o "b"
  /\ \E r \in pending : r.id = 3 /\ r.url = url
  /\ \E r \in pending : r.id = 2 /\ r.url = API_ENDPOINT \o "a"

\* C11 as stated: a GET that ends in a network error, a status outside 2xx or
\* a body without the result list (no body at all, or one without the field)
\* leads to the fetch-failure transition (isError set, collection untouched),
\* never to fetch-success.
C11_NonSuccessIsFailure ==
  last.outcome \in {"network", "status", "nodata", "malformed"} =>
    /\ last.type = "STORIES_FETCH_FAILURE"
    /\ stories.isError = ~last.alsoInit
    /\ stories.data = before.data

KnownTypes ==
  {"STORIES_FETCH_INIT", "STORIES_FETCH_SUCCESS", "STORIES_FETCH_FAILURE", "REMOVE_STORY"}

\* C12: a dispatch whose type is none of the four known ones throws, the
\* stories state after it is the state before it, and the page is unmounted
\* by it (no later dispatch produces a state); a known type does not throw.
C12_UnknownTypeThrows ==
  last.type # "NONE" =>
    /\ last.threw <=> last.type \notin KnownTypes
    /\ last.threw => stories = before
    /\ last.threw <=> ~mounted

C12_Witness ==
  /\ last.type = "STORIES_FETCH_RETRY"
  /\ last.threw
  /\ before.isLoading
  /\ Len(before.data) = 2
  /\ stories = before
  /\ ~mounted

\* C13: nothing cancels an outstanding GET when a new URL is committed, and a
\* successful response is applied whichever request it answers, so the
\* response to an earlier query can overwrite that of a later one.
C13_NoCancellationNoStalenessCheck ==
  [][ /\ last'.type = "SUBMIT" => pending' = pending
      /\ (issued' > issued /\ last'.type # "LOAD") =>
           \A r \in pending : r \in pending' \/ r.id = last'.reqId
      /\ (last'.type = "STORIES_FETCH_SUCCESS" /\ pending' # pending /\ mounted)
           => stories'.data = last'.payload /\ last'.reqId \in 1..issued ]_vars

\* the race: the startup query (request 1) and then "a" (request 2) were
\* committed, request 2 was answered first, request 1 second and successfully
C13_Witness ==
  /\ issued = 2
  /\ url = API_ENDPOINT \o "a"
  /\ pending = {}
  /\ last.type = "STORIES_FETCH_SUCCESS"
  /\ last.reqId = 1
  /\ stories.isLoading = FALSE
  /\ stories.data = last.payload
  /\ Len(stories.data) = 1
  /\ Len(before.data) = 2
  /\ before.isLoading = FALSE
  /\ before.isError = FALSE

\* C14: from every stories state, STORIES_FETCH_INIT yields isLoading true,
\* isError false and the collection as it was.
C14_InitKeepsCollection ==
  last.type = "STORIES_FETCH_INIT" =>
    /\ stories.isLoading = TRUE
    /\ stories.isError = FALSE
    /\ stories.data = before.data

C14_Witness ==
  /\ last.type = "STORIES_FETCH_INIT"
  /\ before.isError
  /\ ~before.isLoading
  /\ Len(before.data) = 2
  /\ before.data[1] # before.data[2]
  /\ stories.data = before.data

\* C15: an edit of the input leaves the committed URL, the stories state and
\* the outstanding GETs as they are and issues no GET; on a loaded page the
\* committed URL changes only by a submission.
C15_EditCommitsNothing ==
  [][ /\ last'.type = "INPUT" =>
           /\ url' = url
           /\ stories' = stories
           /\ pending' = pending
           /\ issued' = issued
           /\ "fetch" \notin effects'
      /\ url' # url => last'.type \in {"SUBMIT", "LOAD"} ]_vars

C15_Witness ==
  /\ last.type = "INPUT"
  /\ searchTerm = "b"
  /\ url = API_ENDPOINT \o "a"
  /\ Cardinality(pending) = 2
  /\ issued = 2

\* C16: a submission happens only with a non-empty term, and in every state
\* the committed URL is the endpoint followed by a non-empty term.
C16_CommittedTermNonEmpty ==
  /\ last.type = "SUBMIT" => searchTerm # ""
  /\ url # API_ENDPOINT
  /\ \E term \in Terms \ {""} : url = API_ENDPOINT \o term

\* the page right after a load that found the empty string persisted
C16_Witness ==
  /\ last.type = "LOAD"
  /\ last.store = StoreWith("")
  /\ localStorage = StoreWith("")
  /\ effects = AppEffects
  /\ url = API_ENDPOINT \o DEFAULT_TERM

\* C17: from the initial stories state, after every sequence of dispatches,
\* isLoading and isError are not both true.
C17_NotLoadingAndError == ~(stories.isLoading /\ stories.isError)

C17_Witness ==
  /\ last.type = "STORIES_FETCH_FAILURE"
  /\ before.isLoading
  /\ stories.isError
  /\ ~stories.isLoading
  /\ stories.data # <<>>

C19_LoadingImpliesOutstanding ==
  /\ stories.isLoading => pending # {}
  /\ last.type = "REMOVE_STORY" => ~before.isLoading

C19_Witness ==
  /\ last.type = "REMOVE_STORY"
  /\ pending # {}
  /\ ~stories.isLoading
  /\ Len(before.data) = 2

\* C20: when the transport settles every GET and the page issues finitely
\* many, from some point on no GET is outstanding and isLoading is false (so
\* every request that was issued has been settled); a request leaves the
\* outstanding ones one at a time, by the dispatch of one
\* STORIES_FETCH_SUCCESS or STORIES_FETCH_FAILURE for that request.
C20_EveryFetchSettles ==
  /\ <>[](pending = {} /\ ~stories.isLoading)
  /\ [][ \A r \in pending \ pending' :
           /\ pending \ pending' = {r}
           /\ mounted =>
                /\ last'.reqId = r.id
                /\ last'.type \in {"STORIES_FETCH_SUCCESS", "STORIES_FETCH_FAILURE"}
                /\ LET settled == storiesReducer(stories, [type |-> last'.type,
                                                           payload |-> last'.payload])
                   IN  stories' = IF last'.alsoInit
                                    THEN storiesReducer(settled, [type |-> "STORIES_FETCH_INIT"])
                                    ELSE settled ]_vars

C20_Witness ==
  /\ issued = MaxFetches
  /\ pending = {}
  /\ ~stories.isLoading
  /\ mounted
  /\ last.type = "STORIES_FETCH_FAILURE"
  /\ last.outcome = "nodata"
  /\ last.reqId = 1

=============================================================================
